---- MODULE Spec2Model ----
(***************************************************************************)
(* A model of the JSON-like front end: the character-level Lexer           *)
(* (src/lexer.py), the recursive-descent Parser with its semantic checks   *)
(* and the token-line loader (src/parser.py).                              *)
(*                                                                         *)
(* Texts and token lines are sequences of one-character strings.  Python   *)
(* positions and indexes are 0-based and are kept 0-based here; a          *)
(* sequence element at Python index i is element i + 1 of the sequence.    *)
(***************************************************************************)
EXTENDS Integers, Sequences, FiniteSets, TLC

VARIABLES
  mode,            \* "text": Lexer then Parser; "tokens": loader then Parser
  pc,              \* position of the run: "tokenize", "load", "parse", "done"
  input_text,      \* Lexer.input_text
  current_pos,     \* Lexer.current_pos
  brace_count,     \* Lexer.brace_count
  bracket_count,   \* Lexer.bracket_count
  tokens,          \* the local list `tokens` of Lexer.tokenize / load_tokens_from_file
  output_widget,   \* the error messages Lexer.display_error appended
  lex_outcome,     \* how Lexer.tokenize ended: "running", "returned", "ValueError"
  input_lines,     \* the lines of the token file the loader reads
  parse_outcome,   \* what Parser.parse gave: a tree or the error it raised
  rendered         \* str(parse_tree) of the returned tree, as the callers take it

vars == <<mode, pc, input_text, current_pos, brace_count, bracket_count, tokens,
          output_widget, lex_outcome, input_lines, parse_outcome, rendered>>

-----------------------------------------------------------------------------
(* Characters *)

None == "None"

Digits == {"0", "1", "2", "3", "4", "5", "6", "7", "8", "9"}

Letters == {"a", "b", "c", "d", "e", "f", "g", "h", "i", "j", "k", "l", "m",
            "n", "o", "p", "q", "r", "s", "t", "u", "v", "w", "x", "y", "z",
            "A", "B", "C", "D", "E", "F", "G", "H", "I", "J", "K", "L", "M",
            "N", "O", "P", "Q", "R", "S", "T", "U", "V", "W", "X", "Y", "Z"}

Whitespace == {" ", "\n", "\t"}

IsSpace(c) == c \in Whitespace

IsDigit(c) == c \in Digits

IsAlpha(c) == c \in Letters

IsAlnum(c) == c \in Letters \cup Digits

DigitValue(c) ==
  CASE c = "0" -> 0 [] c = "1" -> 1 [] c = "2" -> 2 [] c = "3" -> 3
    [] c = "4" -> 4 [] c = "5" -> 5 [] c = "6" -> 6 [] c = "7" -> 7
    [] c = "8" -> 8 [] c = "9" -> 9

\* s[from:to] of Python, 0-based, `to` exclusive
Slice(s, from, to) == SubSeq(s, from + 1, to)

StartsWith(s, prefix) ==
  /\ Len(s) >= Len(prefix)
  /\ SubSeq(s, 1, Len(prefix)) = prefix

EndsWith(s, suffix) ==
  /\ Len(s) >= Len(suffix)
  /\ SubSeq(s, Len(s) - Len(suffix) + 1, Len(s)) = suffix

Contains(s, c) == \E i \in 1..Len(s) : s[i] = c

RECURSIVE LStrip(_, _)
LStrip(s, chars) ==
  IF s /= <<>> /\ s[1] \in chars THEN LStrip(Tail(s), chars) ELSE s

RECURSIVE RStrip(_, _)
RStrip(s, chars) ==
  IF s /= <<>> /\ s[Len(s)] \in chars
  THEN RStrip(SubSeq(s, 1, Len(s) - 1), chars)
  ELSE s

\* str.strip() and str.strip(chars)
Strip(s, chars) == RStrip(LStrip(s, chars), chars)

-----------------------------------------------------------------------------
(* Token model *)

\* A payload: None, a str (text), an int (n) or a float (n * 10^e, n without
\* trailing zeros).
NoneValue == [kind |-> "None", text |-> <<>>, n |-> 0, e |-> 0]

StrValue(s) == [kind |-> "str", text |-> s, n |-> 0, e |-> 0]

IntValue(n) == [kind |-> "int", text |-> <<>>, n |-> n, e |-> 0]

RECURSIVE FloatValue(_, _)
FloatValue(n, e) ==
  IF n = 0 THEN [kind |-> "float", text |-> <<>>, n |-> 0, e |-> 0]
  ELSE IF n % 10 = 0 THEN FloatValue(n \div 10, e + 1)
  ELSE [kind |-> "float", text |-> <<>>, n |-> n, e |-> e]

Token(type_, value) == [type |-> type_, value |-> value]

TokenTypes == {"COMMA", "COLON", "LBRACE", "RBRACE", "LBRACKET", "RBRACKET",
               "STRING", "NUMBER", "EOF", "TRUE", "FALSE", "NULL"}

LexerError(position, character) ==
  [kind |-> "LexerError", position |-> position, character |-> character]

-----------------------------------------------------------------------------
(* Lexer *)

\* Lexer.current_char for a cursor position
CurrentChar(text, pos) == IF pos >= Len(text) THEN None ELSE text[pos + 1]

RECURSIVE skip_whitespace(_, _)
skip_whitespace(text, pos) ==
  IF CurrentChar(text, pos) /= None /\ IsSpace(CurrentChar(text, pos))
  THEN skip_whitespace(text, pos + 1)
  ELSE pos

\* the position after a run of digits starting at pos
RECURSIVE skip_digits(_, _)
skip_digits(text, pos) ==
  IF CurrentChar(text, pos) /= None /\ IsDigit(CurrentChar(text, pos))
  THEN skip_digits(text, pos + 1)
  ELSE pos

\* the position after a run of letters starting at pos
RECURSIVE skip_alpha(_, _)
skip_alpha(text, pos) ==
  IF CurrentChar(text, pos) /= None /\ IsAlpha(CurrentChar(text, pos))
  THEN skip_alpha(text, pos + 1)
  ELSE pos

\* What a recognizer or get_next_token gives: a token and the lexer state
\* after it, or the exception raised.
Emit(tok, pos, brace, bracket) ==
  [kind |-> "token", token |-> tok, pos |-> pos, brace |-> brace,
   bracket |-> bracket, position |-> 0, character |-> ""]

Raise(kind, position, character, brace, bracket) ==
  [kind |-> kind, token |-> Token("EOF", NoneValue), pos |-> position,
   brace |-> brace, bracket |-> bracket, position |-> position,
   character |-> character]

EscapeChars == {"\"", "\\", "n", "t", "r"}

\* the while loop of recognize_string, from cursor pos with `result` so far
RECURSIVE recognize_string_loop(_, _, _, _, _)
recognize_string_loop(text, pos, result, brace, bracket) ==
  LET c == CurrentChar(text, pos) IN
  IF c /= None /\ c /= "\""
  THEN IF c = "\\"
       THEN LET c2 == CurrentChar(text, pos + 1) IN
            IF c2 \in EscapeChars
            THEN recognize_string_loop(text, pos + 2, result \o <<"\\", c2>>,
                                       brace, bracket)
            ELSE Raise("LexerError", pos + 1, c2, brace, bracket)
       ELSE recognize_string_loop(text, pos + 1, Append(result, c), brace, bracket)
  ELSE IF c /= "\""
       THEN Raise("LexerError", pos, "Unclosed string literal", brace, bracket)
       ELSE Emit(Token("STRING", StrValue(result)), pos + 1, brace, bracket)

recognize_string(text, pos, brace, bracket) ==
  recognize_string_loop(text, pos + 1, <<>>, brace, bracket)

\* the natural number a run of digits spells (0 for the empty run)
RECURSIVE DigitsToNat(_)
DigitsToNat(ds) ==
  IF ds = <<>> THEN 0
  ELSE 10 * DigitsToNat(SubSeq(ds, 1, Len(ds) - 1)) + DigitValue(ds[Len(ds)])

AllDigits(s) == \A i \in 1..Len(s) : IsDigit(s[i])

Signs == {"-", "+"}

\* the literal without its optional leading sign
Unsigned(s) == IF s /= <<>> /\ s[1] \in Signs THEN Tail(s) ELSE s

SignOf(s) == IF s /= <<>> /\ s[1] = "-" THEN -1 ELSE 1

\* int(result) succeeds: an optional sign, then one digit or more
IntLiteralOk(s) == Unsigned(s) /= <<>> /\ AllDigits(Unsigned(s))

\* index of the first element of s in set cs, or Len(s) + 1
RECURSIVE FirstIn(_, _, _)
FirstIn(s, cs, i) ==
  IF i > Len(s) \/ s[i] \in cs THEN i ELSE FirstIn(s, cs, i + 1)

\* The parts of a float literal: mantissa (before e/E), split at the decimal
\* point, and the exponent text (after e/E).
FloatParts(s) ==
  LET u    == Unsigned(s)
      ei   == FirstIn(u, {"e", "E"}, 1)
      mant == SubSeq(u, 1, ei - 1)
      expo == SubSeq(u, ei + 1, Len(u))
      di   == FirstIn(mant, {"."}, 1)
  IN [int |-> SubSeq(mant, 1, di - 1), frac |-> SubSeq(mant, di + 1, Len(mant)),
      has_e |-> ei <= Len(u), exp |-> expo]

\* float(result) succeeds: digits with an optional point, at least one digit
\* in the mantissa, and a nonempty run of digits after an exponent marker
FloatLiteralOk(s) ==
  LET p == FloatParts(s) IN
  /\ AllDigits(p.int) /\ AllDigits(p.frac)
  /\ Len(p.int) + Len(p.frac) > 0
  /\ p.has_e => (Unsigned(p.exp) /= <<>> /\ AllDigits(Unsigned(p.exp)))

DecodeInt(s) == IntValue(SignOf(s) * DigitsToNat(Unsigned(s)))

DecodeFloat(s) ==
  LET p == FloatParts(s)
      x == IF p.has_e THEN SignOf(p.exp) * DigitsToNat(Unsigned(p.exp)) ELSE 0
  IN FloatValue(SignOf(s) * DigitsToNat(p.int \o p.frac), x - Len(p.frac))

recognize_number(text, pos, brace, bracket) ==
  LET p1 == IF CurrentChar(text, pos) \in Signs THEN pos + 1 ELSE pos
      p2 == skip_digits(text, p1)
      has_decimal == CurrentChar(text, p2) = "."
      p3 == IF has_decimal THEN skip_digits(text, p2 + 1) ELSE p2
      has_exponent == CurrentChar(text, p3) \in {"e", "E"}
      p4 == IF has_exponent
            THEN IF CurrentChar(text, p3 + 1) \in Signs THEN p3 + 2 ELSE p3 + 1
            ELSE p3
      p5 == IF has_exponent THEN skip_digits(text, p4) ELSE p4
      result == Slice(text, pos, p5)
  IN IF result = <<>> \/ (~IsDigit(result[1]) /\ result[1] \notin Signs)
     THEN Raise("LexerError", p5, "Invalid number format", brace, bracket)
     ELSE IF StartsWith(result, <<"0">>) /\ Len(result) > 1
             /\ ~has_decimal /\ ~has_exponent
     THEN Raise("LexerError", p5, "Leading zeros not allowed for integers",
                brace, bracket)
     ELSE IF has_decimal \/ has_exponent
     THEN IF FloatLiteralOk(result)
          THEN Emit(Token("NUMBER", DecodeFloat(result)), p5, brace, bracket)
          ELSE Raise("ValueError", p5, "could not convert string to float",
                     brace, bracket)
     ELSE IF IntLiteralOk(result)
          THEN Emit(Token("NUMBER", DecodeInt(result)), p5, brace, bracket)
          ELSE Raise("ValueError", p5, "invalid literal for int()", brace, bracket)

recognize_keyword(text, pos, brace, bracket) ==
  LET p == skip_alpha(text, pos)
      result == Slice(text, pos, p)
  IN IF result = <<"t", "r", "u", "e">>
     THEN Emit(Token("TRUE", NoneValue), p, brace, bracket)
     ELSE IF result = <<"f", "a", "l", "s", "e">>
     THEN Emit(Token("FALSE", NoneValue), p, brace, bracket)
     ELSE IF result = <<"n", "u", "l", "l">>
     THEN Emit(Token("NULL", NoneValue), p, brace, bracket)
     ELSE Raise("LexerError", p, "Unexpected keyword", brace, bracket)

\* the characters that may follow '}' or ']'
AfterCloser == {None, ",", "}", "]"}

\* StartsValue that also lets a sign start the value
StartsValueOrSign(c) == c /= None /\ (c \in {"\"", "{", "[", "-", "+"} \/ IsAlnum(c))

\* the look-ahead after ',' and ':': the next character starts a value
StartsValue(c) == c /= None /\ (c \in {"\"", "{", "["} \/ IsAlnum(c))

get_next_token(text, pos, brace, bracket) ==
  LET p == skip_whitespace(text, pos)
      c == CurrentChar(text, p)
  IN IF c = None THEN Emit(Token("EOF", NoneValue), p, brace, bracket)
     ELSE IF c = "{" THEN Emit(Token("LBRACE", NoneValue), p + 1, brace + 1, bracket)
     ELSE IF c = "}"
     THEN IF brace = 0
          THEN Raise("LexerError", p, "Unexpected closing brace", brace, bracket)
          ELSE IF CurrentChar(text, p + 1) \notin AfterCloser
          THEN Raise("LexerError", p + 1, "Unexpected character after '}'",
                     brace - 1, bracket)
          ELSE Emit(Token("RBRACE", NoneValue), p + 1, brace - 1, bracket)
     ELSE IF c = "[" THEN Emit(Token("LBRACKET", NoneValue), p + 1, brace, bracket + 1)
     ELSE IF c = "]"
     THEN IF bracket = 0
          THEN Raise("LexerError", p, "Unexpected closing bracket", brace, bracket)
          ELSE IF CurrentChar(text, p + 1) \notin AfterCloser
          THEN Raise("LexerError", p + 1, "Unexpected character after ']'",
                     brace, bracket - 1)
          ELSE Emit(Token("RBRACKET", NoneValue), p + 1, brace, bracket - 1)
     ELSE IF c = ","
     THEN LET q == skip_whitespace(text, p + 1) IN
          IF ~StartsValue(CurrentChar(text, q))
          THEN Raise("LexerError", q, "Expected a value after ','", brace, bracket)
          ELSE Emit(Token("COMMA", NoneValue), q, brace, bracket)
     ELSE IF c = ":"
     THEN LET q == skip_whitespace(text, p + 1) IN
          IF ~StartsValue(CurrentChar(text, q))
          THEN Raise("LexerError", q, "Expected a value after ':'", brace, bracket)
          ELSE Emit(Token("COLON", NoneValue), q, brace, bracket)
     ELSE IF c = "\"" THEN recognize_string(text, p, brace, bracket)
     ELSE IF IsDigit(c) \/ c \in Signs THEN recognize_number(text, p, brace, bracket)
     ELSE IF IsAlpha(c) THEN recognize_keyword(text, p, brace, bracket)
     ELSE Raise("LexerError", p, "Invalid character", brace, bracket)

-----------------------------------------------------------------------------
(* Parse tree and parser *)

ParseNode(node_type, value, children) ==
  [node_type |-> node_type, value |-> value, children |-> children]

NoNode == ParseNode("", NoneValue, <<>>)

\* Parser.current_token at a token index: past the end it is a fresh EOF token
CurrentToken(toks, idx) ==
  IF idx < Len(toks) THEN toks[idx + 1] ELSE Token("EOF", NoneValue)

\* What a parse method gives: the node built and the index after it, or the
\* exception raised (SemanticError with its code, the generic Exception, or
\* AttributeError) with the index of the current token when it was raised.
Parsed(node, idx) ==
  [kind |-> "ok", node |-> node, idx |-> idx, code |-> 0, seen |-> {}]

ParsedPair(node, idx, seen) ==
  [kind |-> "ok", node |-> node, idx |-> idx, code |-> 0, seen |-> seen]

Raised(kind, code, idx) ==
  [kind |-> kind, node |-> NoNode, idx |-> idx, code |-> code, seen |-> {}]

True == <<"t", "r", "u", "e">>

False == <<"f", "a", "l", "s", "e">>

\* token.value in ["true", "false"]
IsReserved(value) == value.kind = "str" /\ value.text \in {True, False}

\* the leading-zero test of parse_value on a str payload
HasLeadingZero(text) ==
  /\ StartsWith(text, <<"0">>)
  /\ Len(text) > 1
  /\ ~StartsWith(text, <<"0", ".">>)

\* the malformed-decimal test of parse_value on a str payload
HasBadDecimal(text) ==
  /\ Contains(text, ".")
  /\ (StartsWith(text, <<".">>) \/ EndsWith(text, <<".">>))

\* IsBlankKey without the strip(): only the empty key is blank
IsBlankKeyUnstripped(text) == text = <<>>

\* not key_token.value.strip()
IsBlankKey(text) == Strip(text, Whitespace) = <<>>

\* IsDuplicateKey with the membership test left out
IsDuplicateKeyUnchecked(text, seen_keys) == FALSE

\* key_token.value in seen_keys
IsDuplicateKey(text, seen_keys) == text \in seen_keys

\* next_element.node_type != element_type
TypeMismatch(node_type, element_type) == node_type /= element_type

\* str(token.type) of a TRUE, FALSE or NULL token
KeywordNodeType(type_) == type_

RECURSIVE parse_value(_, _)
RECURSIVE parse_dict(_, _)
RECURSIVE parse_dict_loop(_, _, _, _)
RECURSIVE parse_pair(_, _, _, _)
RECURSIVE parse_list(_, _)
RECURSIVE parse_list_loop(_, _, _, _)

\* Parser.eat on the closing token of an object or array
eat_closer(toks, idx, token_type, node) ==
  IF CurrentToken(toks, idx).type = token_type
  THEN Parsed(node, idx + 1)
  ELSE Raised("Exception", 0, idx)

parse_value(toks, idx) ==
  LET token == CurrentToken(toks, idx) IN
  IF token.type = "LBRACE" THEN parse_dict(toks, idx)
  ELSE IF token.type = "LBRACKET" THEN parse_list(toks, idx)
  ELSE IF token.type = "STRING"
  THEN IF IsReserved(token.value)
       THEN Raised("SemanticError", 7, idx)
       ELSE Parsed(ParseNode("String", token.value, <<>>), idx + 1)
  ELSE IF token.type = "NUMBER"
  THEN IF token.value.kind /= "str"
       THEN Raised("AttributeError", 0, idx)
       ELSE IF HasLeadingZero(token.value.text)
       THEN Raised("SemanticError", 3, idx)
       ELSE IF HasBadDecimal(token.value.text)
       THEN Raised("SemanticError", 1, idx)
       ELSE Parsed(ParseNode("Number", token.value, <<>>), idx + 1)
  ELSE IF token.type \in {"TRUE", "FALSE", "NULL"}
  THEN Parsed(ParseNode(KeywordNodeType(token.type), token.value, <<>>), idx + 1)
  ELSE Raised("Exception", 0, idx)

parse_pair(toks, idx, node, seen_keys) ==
  LET key_token == CurrentToken(toks, idx) IN
  IF key_token.type /= "STRING" THEN Raised("Exception", 0, idx)
  ELSE IF key_token.value.kind /= "str" THEN Raised("AttributeError", 0, idx)
  ELSE IF IsBlankKey(key_token.value.text) THEN Raised("SemanticError", 2, idx)
  ELSE IF IsReserved(key_token.value) THEN Raised("SemanticError", 4, idx)
  ELSE IF IsDuplicateKey(key_token.value.text, seen_keys)
  THEN Raised("SemanticError", 5, idx)
  ELSE IF CurrentToken(toks, idx + 1).type /= "COLON"
  THEN Raised("Exception", 0, idx + 1)
  ELSE LET v == parse_value(toks, idx + 2) IN
       IF v.kind /= "ok" THEN v
       ELSE LET key_node  == ParseNode("Key", key_token.value, <<>>)
                pair_node == ParseNode("Pair", NoneValue, <<key_node, v.node>>)
            IN ParsedPair(ParseNode(node.node_type, node.value,
                                    Append(node.children, pair_node)),
                          v.idx, seen_keys \cup {key_token.value.text})

\* the while loop of parse_dict
parse_dict_loop(toks, idx, node, seen_keys) ==
  IF CurrentToken(toks, idx).type = "COMMA"
  THEN IF CurrentToken(toks, idx + 1).type /= "STRING"
       THEN Raised("Exception", 0, idx + 1)
       ELSE LET p == parse_pair(toks, idx + 1, node, seen_keys) IN
            IF p.kind /= "ok" THEN p
            ELSE parse_dict_loop(toks, p.idx, p.node, p.seen)
  ELSE eat_closer(toks, idx, "RBRACE", node)

parse_dict(toks, idx) ==
  LET node == ParseNode("Object", NoneValue, <<>>) IN
  IF CurrentToken(toks, idx).type /= "LBRACE" THEN Raised("Exception", 0, idx)
  ELSE IF CurrentToken(toks, idx + 1).type /= "RBRACE"
  THEN LET p == parse_pair(toks, idx + 1, node, {}) IN
       IF p.kind /= "ok" THEN p
       ELSE parse_dict_loop(toks, p.idx, p.node, p.seen)
  ELSE eat_closer(toks, idx + 1, "RBRACE", node)

\* the while loop of parse_list
parse_list_loop(toks, idx, node, element_type) ==
  IF CurrentToken(toks, idx).type = "COMMA"
  THEN LET next_element == parse_value(toks, idx + 1) IN
       IF next_element.kind /= "ok" THEN next_element
       ELSE IF TypeMismatch(next_element.node.node_type, element_type)
       THEN Raised("SemanticError", 6, next_element.idx)
       ELSE parse_list_loop(toks, next_element.idx,
                            ParseNode(node.node_type, node.value,
                                      Append(node.children, next_element.node)),
                            element_type)
  ELSE eat_closer(toks, idx, "RBRACKET", node)

parse_list(toks, idx) ==
  LET node == ParseNode("Array", NoneValue, <<>>) IN
  IF CurrentToken(toks, idx).type /= "LBRACKET" THEN Raised("Exception", 0, idx)
  ELSE IF CurrentToken(toks, idx + 1).type /= "RBRACKET"
  THEN LET first_element == parse_value(toks, idx + 1) IN
       IF first_element.kind /= "ok" THEN first_element
       ELSE parse_list_loop(toks, first_element.idx,
                            ParseNode(node.node_type, node.value,
                                      <<first_element.node>>),
                            first_element.node.node_type)
  ELSE eat_closer(toks, idx + 1, "RBRACKET", node)

\* Parser(tokens).parse(): the constructor reads tokens[0]
parse(toks) ==
  IF toks = <<>> THEN Raised("IndexError", 0, 0) ELSE parse_value(toks, 0)

-----------------------------------------------------------------------------
(* Token-line loader *)

\* index of the first ", " in s, or 0
RECURSIVE FindSeparator(_, _)
FindSeparator(s, i) ==
  IF i + 1 > Len(s) THEN 0
  ELSE IF s[i] = "," /\ s[i + 1] = " " THEN i
  ELSE FindSeparator(s, i + 1)

TypeName(type_) ==
  CASE type_ = "COMMA"    -> <<"C", "O", "M", "M", "A">>
    [] type_ = "COLON"    -> <<"C", "O", "L", "O", "N">>
    [] type_ = "LBRACE"   -> <<"L", "B", "R", "A", "C", "E">>
    [] type_ = "RBRACE"   -> <<"R", "B", "R", "A", "C", "E">>
    [] type_ = "LBRACKET" -> <<"L", "B", "R", "A", "C", "K", "E", "T">>
    [] type_ = "RBRACKET" -> <<"R", "B", "R", "A", "C", "K", "E", "T">>
    [] type_ = "STRING"   -> <<"S", "T", "R", "I", "N", "G">>
    [] type_ = "NUMBER"   -> <<"N", "U", "M", "B", "E", "R">>
    [] type_ = "EOF"      -> <<"E", "O", "F">>
    [] type_ = "TRUE"     -> <<"T", "R", "U", "E">>
    [] type_ = "FALSE"    -> <<"F", "A", "L", "S", "E">>
    [] type_ = "NULL"     -> <<"N", "U", "L", "L">>

\* getattr(TokenType, token_type_str, None)
LookupType(name) ==
  IF \E t \in TokenTypes : TypeName(t) = name
  THEN CHOOSE t \in TokenTypes : TypeName(t) = name
  ELSE None

\* parse_token_line: a token, or None when ValueError is raised
parse_token_line(line) ==
  LET body == Strip(Strip(line, Whitespace), {"<", ">"})
      sep  == FindSeparator(body, 1)
      head == IF sep = 0 THEN body ELSE SubSeq(body, 1, sep - 1)
      token_type == LookupType(Strip(head, Whitespace))
  IN IF token_type = None THEN Token(None, NoneValue)
     ELSE IF sep = 0 THEN Token(token_type, NoneValue)
     ELSE Token(token_type,
                StrValue(Strip(SubSeq(body, sep + 2, Len(body)), Whitespace)))

-----------------------------------------------------------------------------
(* Tree renderer *)

\* the text of a node type
NodeTypeText(node_type) ==
  CASE node_type = "Object" -> <<"O", "b", "j", "e", "c", "t">>
    [] node_type = "Array"  -> <<"A", "r", "r", "a", "y">>
    [] node_type = "Pair"   -> <<"P", "a", "i", "r">>
    [] node_type = "Key"    -> <<"K", "e", "y">>
    [] node_type = "String" -> <<"S", "t", "r", "i", "n", "g">>
    [] node_type = "Number" -> <<"N", "u", "m", "b", "e", "r">>
    [] OTHER                -> TypeName(node_type)

\* f"{self.value}" of a node: the payload of a node of a returned tree is a
\* str or None
ValueText(value) ==
  IF value.kind = "None" THEN <<"N", "o", "n", "e">> ELSE value.text

\* " " * (level * 2)
Indent(level) == [i \in 1..(level * 2) |-> " "]

RECURSIVE repr(_, _)
RECURSIVE repr_children(_, _, _)

\* the for loop of __repr__ over self.children, from child i
repr_children(children, i, level) ==
  IF i > Len(children) THEN <<>>
  ELSE repr(children[i], level) \o repr_children(children, i + 1, level)

\* ParseNode.__repr__(level)
repr(node, level) ==
  LET indent == Indent(level) IN
  IF node.node_type \in {"Object", "Array"}
  THEN indent \o NodeTypeText(node.node_type) \o <<":", "\n">>
         \o repr_children(node.children, 1, level + 1)
  ELSE IF node.node_type = "Pair"
  THEN indent \o <<"P", "a", "i", "r", ":", "\n">>
         \o indent \o <<" ", " ", "K", "e", "y", ":", " ">>
         \o repr(node.children[1], level + 1) \o <<"\n">>
         \o indent \o <<" ", " ", "V", "a", "l", "u", "e", ":", " ">>
         \o repr(node.children[2], level + 1)
  ELSE IF node.node_type = "Key"
  THEN indent \o <<"K", "e", "y", ":", " ">> \o ValueText(node.value)
  ELSE indent \o NodeTypeText(node.node_type) \o <<":", " ">> \o ValueText(node.value)

-----------------------------------------------------------------------------
(* Inputs: documents as sequences of lexemes, written out as text for the   *)
(* Lexer or as token lines for the loader                                   *)

MaxFree == 3     \* longest free-form text
MaxPairs == 2    \* most pairs of a generated object
MaxElems == 3    \* most elements of a generated array
MaxPad == 1      \* longest whitespace padding around a text

Lexeme(type_, lit) == [type |-> type_, lit |-> lit]

Sym(type_) == Lexeme(type_, <<>>)

Str(lit) == Lexeme("STRING", lit)

Num(lit) == Lexeme("NUMBER", lit)

\* the items of a sequence with a COMMA lexeme between neighbours
RECURSIVE CommaJoin(_)
CommaJoin(items) ==
  IF items = <<>> THEN <<>>
  ELSE IF Len(items) = 1 THEN items[1]
  ELSE items[1] \o <<Sym("COMMA")>> \o CommaJoin(Tail(items))

SeqsUpTo(S, n) == UNION {[1..k -> S] : k \in 0..n}

StringLits == {<<"x">>, <<>>, True, <<"\\", "n">>}

NumberLits == {<<"1">>, <<"0">>, <<"0", "1">>, <<"0", ".", "5">>, <<".", "5">>,
               <<"5", ".">>, <<"-", "0", "1">>, <<"-", "1">>, <<"+", "1">>,
               <<"-", ".", "5">>, <<"1", "e", "2">>, <<"0", "0", ".", "5">>}

ScalarDocs ==
  {<<Str(l)>> : l \in StringLits} \cup {<<Num(l)>> : l \in NumberLits}
    \cup {<<Sym("TRUE")>>, <<Sym("FALSE")>>, <<Sym("NULL")>>, <<Sym("BOGUS")>>}

NestedObject == <<Sym("LBRACE"), Str(<<"a">>), Sym("COLON"), Str(<<"x">>), Sym("RBRACE")>>

KeyLits == {<<"a">>, <<"b">>, <<>>, <<" ">>, True, False, <<" ", "a">>}

\* every key with every kind of value, one pair
SinglePairDocs ==
  {<<Sym("LBRACE"), Str(k), Sym("COLON")>> \o v \o <<Sym("RBRACE")>> :
     k \in KeyLits, v \in ScalarDocs \cup {NestedObject}}

PairChoices ==
  {<<Str(k), Sym("COLON")>> \o v :
     k \in {<<"a">>, <<"b">>},
     v \in {<<Str(<<"x">>)>>, <<Num(<<"1">>)>>, <<Num(<<"0", ".", "5">>)>>,
            <<Sym("TRUE")>>, NestedObject}}

ObjectDocs ==
  {<<Sym("LBRACE")>> \o CommaJoin(ps) \o <<Sym("RBRACE")>> :
     ps \in SeqsUpTo(PairChoices, MaxPairs)}

ElemChoices ==
  {<<Str(<<"x">>)>>, <<Num(<<"1">>)>>, <<Num(<<"-", "1">>)>>, <<Sym("TRUE")>>,
   <<Sym("FALSE")>>, <<Sym("NULL")>>, <<Sym("LBRACE"), Sym("RBRACE")>>,
   <<Sym("LBRACKET"), Sym("RBRACKET")>>, <<Str(True)>>}

ArrayDocs ==
  {<<Sym("LBRACKET")>> \o CommaJoin(es) \o <<Sym("RBRACKET")>> :
     es \in SeqsUpTo(ElemChoices, MaxElems)}

\* a complete value followed by more tokens
TrailingDocs ==
  {a \o b : a \in {<<Str(<<"x">>)>>, <<Num(<<"1">>)>>, <<Sym("TRUE")>>,
                   <<Sym("LBRACE"), Sym("RBRACE")>>,
                   <<Sym("LBRACKET"), Sym("RBRACKET")>>},
            b \in {<<Str(<<"x">>)>>, <<Num(<<"1">>)>>, <<Sym("COMMA")>>,
                   <<Sym("RBRACE")>>, <<Sym("LBRACE"), Sym("RBRACE")>>}}

\* a two-element array whose second element differs in variant from the first
\* and holds a violation of its own further on
NestedViolationDocs ==
  {<<Sym("LBRACKET")>> \o a \o <<Sym("COMMA")>> \o b \o <<Sym("RBRACKET")>> :
     a \in {<<Str(<<"x">>)>>, <<Num(<<"1">>)>>},
     b \in {<<Sym("LBRACE"), Str(<<>>), Sym("COLON"), Str(<<"x">>), Sym("RBRACE")>>,
            <<Sym("LBRACE"), Str(<<"a">>), Sym("COLON"), Str(True), Sym("RBRACE")>>,
            <<Sym("LBRACE"), Str(<<"a">>), Str(<<"x">>), Sym("RBRACE")>>,
            <<Sym("LBRACKET"), Num(<<"0", "1">>), Sym("RBRACKET")>>,
            <<Sym("LBRACKET"), Str(<<"x">>), Sym("COMMA"), Sym("LBRACE"),
              Sym("RBRACE"), Sym("RBRACKET")>>}}

ClosedDocs ==
  ScalarDocs \cup SinglePairDocs \cup ObjectDocs \cup ArrayDocs \cup NestedViolationDocs

\* the documents, and each one cut short of its last lexeme
Docs == ClosedDocs \cup TrailingDocs
          \cup {SubSeq(d, 1, Len(d) - 1) : d \in SinglePairDocs \cup ObjectDocs \cup ArrayDocs}

\* the source text of a lexeme
LexemeText(lx) ==
  CASE lx.type = "COMMA"    -> <<",">>
    [] lx.type = "COLON"    -> <<":">>
    [] lx.type = "LBRACE"   -> <<"{">>
    [] lx.type = "RBRACE"   -> <<"}">>
    [] lx.type = "LBRACKET" -> <<"[">>
    [] lx.type = "RBRACKET" -> <<"]">>
    [] lx.type = "STRING"   -> <<"\"">> \o lx.lit \o <<"\"">>
    [] lx.type = "NUMBER"   -> lx.lit
    [] lx.type = "TRUE"     -> True
    [] lx.type = "FALSE"    -> False
    [] lx.type = "NULL"     -> <<"n", "u", "l", "l">>
    [] lx.type = "BOGUS"    -> <<"n", "i", "l">>

\* adjacent scalars are kept apart by one space
RECURSIVE DocText(_)
DocText(d) ==
  IF d = <<>> THEN <<>>
  ELSE IF Len(d) = 1 THEN LexemeText(d[1])
  ELSE LexemeText(d[1])
         \o (IF d[1].type \in {"STRING", "NUMBER", "TRUE", "FALSE", "NULL", "BOGUS"}
                /\ d[2].type \in {"STRING", "NUMBER", "TRUE", "FALSE", "NULL", "BOGUS"}
             THEN <<" ">> ELSE <<>>)
         \o DocText(Tail(d))

\* the line Token.__repr__ prints for a lexeme's token, as a file line
LexemeLine(lx) ==
  <<"<">>
    \o (IF lx.type = "BOGUS" THEN <<"B", "O", "G", "U", "S">> ELSE TypeName(lx.type))
    \o (IF lx.type \in {"STRING", "NUMBER"} THEN <<",", " ">> \o lx.lit ELSE <<>>)
    \o <<">", "\n">>

DocLines(d) == [i \in 1..Len(d) |-> LexemeLine(d[i])] \o <<LexemeLine(Sym("EOF"))>>

FreeAlphabet == {"{", "}", "[", "]", ",", ":", "\"", " ", "0", "1", ".", "-", "+", "e"}

FreeTexts == SeqsUpTo(FreeAlphabet, MaxFree)

Pads == SeqsUpTo({" ", "\n"}, MaxPad)

PaddedTexts ==
  {w1 \o DocText(d) \o w2 :
     w1 \in Pads, w2 \in Pads,
     d \in ScalarDocs \cup {NestedObject, <<Sym("LBRACE"), Sym("RBRACE")>>,
                            <<Sym("LBRACKET"), Str(<<"x">>), Sym("RBRACKET")>>,
                            <<Sym("RBRACE")>>, <<Sym("LBRACE")>>}}

TextInputs == {DocText(d) : d \in Docs} \cup FreeTexts \cup PaddedTexts

LineInputs == {DocLines(d) : d \in Docs} \cup {<<>>}

-----------------------------------------------------------------------------
(* The run: tokenize a text or load a token file, then parse *)

NotParsed == Raised("none", 0, 0)

Init ==
  /\ mode \in {"text", "tokens"}
  /\ pc = IF mode = "text" THEN "tokenize" ELSE "load"
  /\ input_text \in IF mode = "text" THEN TextInputs ELSE {<<>>}
  /\ input_lines \in IF mode = "tokens" THEN LineInputs ELSE {<<>>}
  /\ current_pos = 0
  /\ brace_count = 0
  /\ bracket_count = 0
  /\ tokens = <<>>
  /\ output_widget = <<>>
  /\ lex_outcome = IF mode = "text" THEN "running" ELSE "unused"
  /\ parse_outcome = NotParsed
  /\ rendered = <<>>

\* the next call of get_next_token in the loop of Lexer.tokenize
NextToken == get_next_token(input_text, current_pos, brace_count, bracket_count)

\* tokenize, loop body: a token other than EOF is appended
TokenizeAppend ==
  /\ pc = "tokenize"
  /\ NextToken.kind = "token" /\ NextToken.token.type /= "EOF"
  /\ tokens' = Append(tokens, NextToken.token)
  /\ current_pos' = NextToken.pos
  /\ brace_count' = NextToken.brace
  /\ bracket_count' = NextToken.bracket
  /\ UNCHANGED <<mode, pc, input_text, output_widget, lex_outcome, input_lines,
                 parse_outcome, rendered>>

\* TokenizeEOF with the EOF token appended inside the loop as well as after it
TokenizeEOFAppendedTwice ==
  /\ pc = "tokenize"
  /\ NextToken.kind = "token" /\ NextToken.token.type = "EOF"
  /\ tokens' = tokens \o <<NextToken.token, Token("EOF", NoneValue)>>
  /\ current_pos' = NextToken.pos
  /\ lex_outcome' = "returned"
  /\ pc' = "parse"
  /\ UNCHANGED <<mode, input_text, brace_count, bracket_count, output_widget,
                 input_lines, parse_outcome, rendered>>

\* tokenize: get_next_token gives EOF, the loop breaks, EOF is appended and
\* the list returned
TokenizeEOF ==
  /\ pc = "tokenize"
  /\ NextToken.kind = "token" /\ NextToken.token.type = "EOF"
  /\ tokens' = Append(tokens, Token("EOF", NoneValue))
  /\ current_pos' = NextToken.pos
  /\ lex_outcome' = "returned"
  /\ pc' = "parse"
  /\ UNCHANGED <<mode, input_text, brace_count, bracket_count, output_widget,
                 input_lines, parse_outcome, rendered>>

\* tokenize: get_next_token raises LexerError, which the loop catches: the
\* message goes to display_error, the loop breaks, EOF is appended and the
\* list returned
TokenizeLexerError ==
  /\ pc = "tokenize"
  /\ NextToken.kind = "LexerError"
  /\ output_widget' = Append(output_widget,
                             LexerError(NextToken.position, NextToken.character))
  /\ tokens' = Append(tokens, Token("EOF", NoneValue))
  /\ current_pos' = NextToken.pos
  /\ brace_count' = NextToken.brace
  /\ bracket_count' = NextToken.bracket
  /\ lex_outcome' = "returned"
  /\ pc' = "parse"
  /\ UNCHANGED <<mode, input_text, input_lines, parse_outcome, rendered>>

\* tokenize: int() or float() of recognize_number raises ValueError, which
\* nothing catches: tokenize raises it and returns no list
TokenizeValueError ==
  /\ pc = "tokenize"
  /\ NextToken.kind = "ValueError"
  /\ current_pos' = NextToken.pos
  /\ lex_outcome' = "ValueError"
  /\ pc' = "done"
  /\ UNCHANGED <<mode, input_text, brace_count, bracket_count, tokens,
                 output_widget, input_lines, parse_outcome, rendered>>

LoadedTokens == [i \in 1..Len(input_lines) |-> parse_token_line(input_lines[i])]

\* load_tokens_from_file: every line gives a token
LoadTokens ==
  /\ pc = "load"
  /\ \A i \in 1..Len(input_lines) : LoadedTokens[i].type /= None
  /\ tokens' = LoadedTokens
  /\ pc' = "parse"
  /\ UNCHANGED <<mode, input_text, current_pos, brace_count, bracket_count,
                 output_widget, lex_outcome, input_lines, parse_outcome, rendered>>

\* load_tokens_from_file: parse_token_line raises ValueError on some line,
\* which process_file reports as a parsing error
LoadFails ==
  /\ pc = "load"
  /\ \E i \in 1..Len(input_lines) : LoadedTokens[i].type = None
  /\ parse_outcome' = Raised("ValueError", 0, 0)
  /\ pc' = "done"
  /\ UNCHANGED <<mode, input_text, current_pos, brace_count, bracket_count,
                 tokens, output_widget, lex_outcome, input_lines, rendered>>

\* Parser(tokens).parse() returns a tree, which the caller renders with str()
ParseReturns ==
  /\ pc = "parse"
  /\ parse(tokens).kind = "ok"
  /\ parse_outcome' = parse(tokens)
  /\ rendered' = repr(parse(tokens).node, 0)
  /\ pc' = "done"
  /\ UNCHANGED <<mode, input_text, current_pos, brace_count, bracket_count,
                 tokens, output_widget, lex_outcome, input_lines>>

\* Parser(tokens).parse() raises
ParseRaises ==
  /\ pc = "parse"
  /\ parse(tokens).kind /= "ok"
  /\ parse_outcome' = parse(tokens)
  /\ pc' = "done"
  /\ UNCHANGED <<mode, input_text, current_pos, brace_count, bracket_count,
                 tokens, output_widget, lex_outcome, input_lines, rendered>>

Next ==
  \/ TokenizeAppend
  \/ TokenizeEOF
  \/ TokenizeLexerError
  \/ TokenizeValueError
  \/ LoadTokens
  \/ LoadFails
  \/ ParseReturns
  \/ ParseRaises

Spec == Init /\ [][Next]_vars

-----------------------------------------------------------------------------
(* Lexer.tokenize as a whole, for comparing the run with another text's *)

TokenizeResult(outcome, toks, errors) ==
  [outcome |-> outcome, tokens |-> toks, errors |-> errors]

RECURSIVE tokenize_loop(_, _, _, _, _)
tokenize_loop(text, pos, brace, bracket, toks) ==
  LET r == get_next_token(text, pos, brace, bracket) IN
  IF r.kind = "ValueError" THEN TokenizeResult("ValueError", <<>>, <<>>)
  ELSE IF r.kind = "LexerError"
  THEN TokenizeResult("returned", Append(toks, Token("EOF", NoneValue)),
                      <<LexerError(r.position, r.character)>>)
  ELSE IF r.token.type = "EOF"
  THEN TokenizeResult("returned", Append(toks, Token("EOF", NoneValue)), <<>>)
  ELSE tokenize_loop(text, r.pos, r.brace, r.bracket, Append(toks, r.token))

tokenize(text) == tokenize_loop(text, 0, 0, 0, <<>>)

-----------------------------------------------------------------------------
(* Vocabulary of the properties *)

TextRunEnded == mode = "text" /\ lex_outcome /= "running"

ParseEnded == pc = "done" /\ parse_outcome.kind /= "none"

TreeReturned == pc = "done" /\ parse_outcome.kind = "ok"

SemanticCode(code) ==
  pc = "done" /\ parse_outcome.kind = "SemanticError" /\ parse_outcome.code = code

\* the token the parser stopped at, as an index into the sequence tokens
StopIndex == parse_outcome.idx + 1

RECURSIVE Nodes(_)
Nodes(node) ==
  {node} \cup UNION {Nodes(node.children[i]) : i \in 1..Len(node.children)}

KeyText(pair_node) == pair_node.children[1].value.text

\* Scanning the tokens backwards from index i: the index of the unmatched
\* opening brace or bracket, or 0.
RECURSIVE OpenerBefore(_, _, _)
OpenerBefore(toks, i, depth) ==
  IF i < 1 THEN 0
  ELSE IF toks[i].type \in {"RBRACE", "RBRACKET"} THEN OpenerBefore(toks, i - 1, depth + 1)
  ELSE IF toks[i].type \in {"LBRACE", "LBRACKET"}
  THEN IF depth = 0 THEN i ELSE OpenerBefore(toks, i - 1, depth - 1)
  ELSE OpenerBefore(toks, i - 1, depth)

\* token i stands where an object expects a key
IsKeyPosition(toks, i) ==
  /\ i \in 2..Len(toks)
  /\ toks[i].type = "STRING" /\ toks[i].value.kind = "str"
  /\ toks[i - 1].type \in {"LBRACE", "COMMA"}
  /\ OpenerBefore(toks, i - 1, 0) > 0
  /\ toks[OpenerBefore(toks, i - 1, 0)].type = "LBRACE"

\* the key texts of the same object that precede key position i
DirectKeysBefore(toks, i) ==
  {toks[j].value.text :
     j \in {k \in 1..(i - 1) : /\ IsKeyPosition(toks, k)
                               /\ OpenerBefore(toks, k - 1, 0) = OpenerBefore(toks, i - 1, 0)}}

\* the key positions the parser has gone past
ConsumedKeys == {i \in 1..(StopIndex - 1) : IsKeyPosition(tokens, i)}

-----------------------------------------------------------------------------
(* C1 *)

\* C1: when the text holds an invalid character-level construct (one that
\* get_next_token raises LexerError for), tokenize fails: it does not return
\* a token sequence.
C1_LexerErrorReachesCaller ==
  (TextRunEnded /\ output_widget /= <<>>) => lex_outcome /= "returned"

(* C2 *)

\* C2: when the input is exhausted with a brace or bracket still open, the
\* lexer fails with an unclosed brace/bracket error instead of producing the
\* EOF token: a run that returns with no error reported has both depths zero.
C2_UnclosedIsAnError ==
  (TextRunEnded /\ lex_outcome = "returned" /\ output_widget = <<>>)
    => (brace_count = 0 /\ bracket_count = 0)

(* C3 *)

ValidScalars ==
  {<<Str(<<"x">>)>>, <<Str(<<>>)>>, <<Num(<<"1">>)>>, <<Num(<<"0">>)>>,
   <<Num(<<"0", ".", "5">>)>>, <<Sym("TRUE")>>, <<Sym("FALSE")>>, <<Sym("NULL")>>}

\* the objects of the inputs whose keys are pairwise distinct, non-blank and
\* non-reserved and whose values are valid scalars, as sequences of pairs
ValidObjectPairs ==
  {ps \in SeqsUpTo({<<Str(k)>> \o v : k \in {<<"a">>, <<"b">>}, v \in ValidScalars},
                   MaxPairs) :
     \A i, j \in 1..Len(ps) : i /= j => ps[i][1].lit /= ps[j][1].lit}

ValidObjectText(ps) ==
  DocText(<<Sym("LBRACE")>>
            \o CommaJoin([i \in 1..Len(ps) |-> <<ps[i][1], Sym("COLON"), ps[i][2]>>])
            \o <<Sym("RBRACE")>>)

\* C3: for an object text with n distinct valid keys and valid scalar values,
\* parsing the lexer's tokens returns an Object node with exactly n Pair
\* children in source order, each holding its Key node then its value node.
C3_ObjectOfScalarsParses ==
  (mode = "text" /\ pc = "done") =>
    \A ps \in ValidObjectPairs :
      input_text = ValidObjectText(ps) =>
        /\ parse_outcome.kind = "ok"
        /\ parse_outcome.node.node_type = "Object"
        /\ Len(parse_outcome.node.children) = Len(ps)
        /\ \A i \in 1..Len(ps) :
             LET pair == parse_outcome.node.children[i] IN
             /\ pair.node_type = "Pair"
             /\ Len(pair.children) = 2
             /\ pair.children[1].node_type = "Key"
             /\ pair.children[1].value.text = ps[i][1].lit

(* C4 *)

\* C4: parse returns a tree only when the whole token sequence up to EOF is
\* one value: the token after the returned value is EOF.
C4_WholeInputIsOneValue ==
  TreeReturned => CurrentToken(tokens, parse_outcome.idx).type = "EOF"

(* C5 *)

\* C5: code 5 is raised exactly at a key that repeats a key of the same
\* object: every returned tree's objects have pairwise distinct direct keys,
\* the parser never goes past a repeated direct key, and it raises code 5
\* only at one (so a key repeated in a nested, sibling or ancestor object is
\* accepted).
C5_DuplicateKeys ==
  /\ TreeReturned =>
       \A obj \in {n \in Nodes(parse_outcome.node) : n.node_type = "Object"} :
         \A i, j \in 1..Len(obj.children) :
           i /= j => KeyText(obj.children[i]) /= KeyText(obj.children[j])
  /\ ParseEnded =>
       \A i \in ConsumedKeys : tokens[i].value.text \notin DirectKeysBefore(tokens, i)
  /\ SemanticCode(5) =>
       /\ IsKeyPosition(tokens, StopIndex)
       /\ tokens[StopIndex].value.text \in DirectKeysBefore(tokens, StopIndex)

\* code 5 at a key that repeats its object's key after a nested object with
\* the same key text was accepted
C5_Witness ==
  /\ SemanticCode(5)
  /\ \E i \in ConsumedKeys :
       /\ tokens[i].value.text = tokens[StopIndex].value.text
       /\ OpenerBefore(tokens, i - 1, 0) /= OpenerBefore(tokens, StopIndex - 1, 0)

(* C6 *)

\* the variant tag the data model gives a value that starts with this token
VariantTag(type_) ==
  CASE type_ = "LBRACE" -> "Object"
    [] type_ = "LBRACKET" -> "Array"
    [] type_ = "STRING" -> "String"
    [] type_ = "NUMBER" -> "Number"
    [] type_ \in {"TRUE", "FALSE"} -> "Boolean"
    [] type_ = "NULL" -> "Null"
    [] OTHER -> "none"

\* the variant tag of a node of a returned tree
NodeTag(node) ==
  IF node.node_type \in {"TRUE", "FALSE"} THEN "Boolean"
  ELSE IF node.node_type = "NULL" THEN "Null"
  ELSE node.node_type

\* the index of the first token of the value whose last token is token i
ValueStart(toks, i) ==
  IF toks[i].type \in {"RBRACE", "RBRACKET"} THEN OpenerBefore(toks, i - 1, 0) ELSE i

\* C6: parse_list raises code 6 if and only if a later element's variant tag
\* differs from the first element's, true and false sharing the tag Boolean:
\* the element code 6 is raised for differs in tag from its array's first
\* element, and the children of every returned Array share one tag.
C6_ArrayTags ==
  /\ SemanticCode(6) =>
       LET start == ValueStart(tokens, StopIndex - 1)
           first == OpenerBefore(tokens, start - 1, 0) + 1
       IN VariantTag(tokens[start].type) /= VariantTag(tokens[first].type)
  /\ TreeReturned =>
       \A arr \in {n \in Nodes(parse_outcome.node) : n.node_type = "Array"} :
         \A i \in 1..Len(arr.children) :
           NodeTag(arr.children[i]) = NodeTag(arr.children[1])

(* C7 *)

\* the claim's shape of a number literal: no extra leading zero in the
\* integer part, and a digit on each side of every decimal point; a leading
\* sign is set aside
WellFormedNumber(text) ==
  LET u == Unsigned(text) IN
  /\ ~(Len(u) > 1 /\ u[1] = "0" /\ IsDigit(u[2]))
  /\ \A i \in 1..Len(u) :
       u[i] = "." => (i > 1 /\ i < Len(u) /\ IsDigit(u[i - 1]) /\ IsDigit(u[i + 1]))

\* C7: in every returned tree, for any token sequence, every Number node's
\* literal is well formed, signed literals included.
C7_NumbersWellFormed ==
  TreeReturned =>
    \A n \in {m \in Nodes(parse_outcome.node) : m.node_type = "Number"} :
      WellFormedNumber(n.value.text)

(* C8 *)

Blank(text) == \A i \in 1..Len(text) : text[i] \in Whitespace

\* C8: parse_pair raises code 2 at every blank key and code 4 at every key
\* that is exactly true or false, with the key not consumed: the parser never
\* goes past such a key, stopping at one it raises that code, it raises the
\* code only there, and no Key node of a returned tree is blank or reserved.
C8_BlankAndReservedKeys ==
  /\ ParseEnded =>
       \A i \in ConsumedKeys :
         ~Blank(tokens[i].value.text) /\ tokens[i].value.text \notin {True, False}
  /\ (ParseEnded /\ parse_outcome.kind /= "ok" /\ IsKeyPosition(tokens, StopIndex)) =>
       /\ Blank(tokens[StopIndex].value.text) => SemanticCode(2)
       /\ tokens[StopIndex].value.text \in {True, False} => SemanticCode(4)
  /\ SemanticCode(2) =>
       IsKeyPosition(tokens, StopIndex) /\ Blank(tokens[StopIndex].value.text)
  /\ SemanticCode(4) =>
       IsKeyPosition(tokens, StopIndex) /\ tokens[StopIndex].value.text \in {True, False}
  /\ TreeReturned =>
       \A k \in {n \in Nodes(parse_outcome.node) : n.node_type = "Key"} :
         ~Blank(k.value.text) /\ k.value.text \notin {True, False}

\* code 2 raised at a key of one space, read by the lexer from a text
C8_Witness ==
  /\ mode = "text"
  /\ SemanticCode(2)
  /\ tokens[StopIndex].value.text = <<" ">>

(* C9 *)

\* C9: whitespace before and after a text does not change the lexer's
\* result: the run on the text gives what tokenize gives on the text with
\* its leading and trailing whitespace removed, and fails exactly when that
\* fails.
C9_PaddingIgnored ==
  TextRunEnded =>
    LET bare == tokenize(Strip(input_text, Whitespace)) IN
    /\ lex_outcome = bare.outcome
    /\ lex_outcome = "returned" => tokens = bare.tokens
    /\ (output_widget = <<>>) <=> (bare.errors = <<>>)

(* C10 *)

\* the character the next get_next_token dispatches on
DispatchPos == skip_whitespace(input_text, current_pos)

\* the first non-whitespace character after the dispatch character
LookAheadChar ==
  CurrentChar(input_text, skip_whitespace(input_text, DispatchPos + 1))

LastTokenType == IF tokens = <<>> THEN "none" ELSE tokens[Len(tokens)].type

\* C10: at ',' or ':' the lexer fails unless the next non-whitespace
\* character is a double quote, '{', '[' or alphanumeric, so it fails when
\* that character is '-' or '+'; and after COMMA or COLON is emitted the
\* cursor rests on such a character, so the next token is no signed NUMBER.
C10_NoSignAfterCommaOrColon ==
  /\ (pc = "tokenize" /\ CurrentChar(input_text, DispatchPos) \in {",", ":"}) =>
       IF LookAheadChar \in {"\"", "{", "["} \cup Letters \cup Digits
       THEN NextToken.kind = "token" /\ NextToken.token.type \in {"COMMA", "COLON"}
       ELSE NextToken.kind = "LexerError"
  /\ (pc = "tokenize" /\ LastTokenType \in {"COMMA", "COLON"}) =>
       /\ current_pos = DispatchPos
       /\ CurrentChar(input_text, current_pos) \notin Signs
       /\ ~(NextToken.kind = "token" /\ NextToken.token.type = "NUMBER"
            /\ input_text[current_pos + 1] \in Signs)

\* the lexer has failed at a sign that follows a comma and a space
C10_Witness ==
  /\ TextRunEnded
  /\ Len(output_widget) = 1
  /\ output_widget[1].character = "Expected a value after ','"
  /\ output_widget[1].position >= 2
  /\ output_widget[1].position < Len(input_text)
  /\ input_text[output_widget[1].position + 1] \in Signs
  /\ input_text[output_widget[1].position] = " "

(* C11 *)

\* C11: the lexer either produces tokens or fails with a LexerError: number
\* text that cannot be decoded is rejected with a LexerError, so no other
\* kind of failure escapes recognize_number or tokenize.
C11_OnlyLexerErrorsEscape ==
  TextRunEnded => lex_outcome \in {"returned", "LexerError"}

(* C12 *)

\* C12: every token sequence tokenize returns holds exactly one EOF token,
\* as its last element; for the empty text it is the one-element sequence
\* [EOF].
C12_OneEOFLast ==
  (mode = "text" /\ lex_outcome = "returned") =>
    /\ tokens /= <<>>
    /\ tokens[Len(tokens)] = Token("EOF", NoneValue)
    /\ \A i \in 1..(Len(tokens) - 1) : tokens[i].type /= "EOF"
    /\ input_text = <<>> => tokens = <<Token("EOF", NoneValue)>>

\* tokenize has returned [EOF] for the empty text
C12_Witness ==
  /\ mode = "text" /\ lex_outcome = "returned"
  /\ input_text = <<>>
  /\ tokens = <<Token("EOF", NoneValue)>>

\* tokenize has returned several tokens and then EOF, with no error on the way
C12_WitnessLong ==
  /\ mode = "text" /\ lex_outcome = "returned" /\ output_widget = <<>>
  /\ Len(tokens) >= 4

(* C13 *)

\* the lines of a text: the pieces between line feeds, a final line feed
\* ending the last line rather than starting an empty one
RECURSIVE SplitLines(_, _)
SplitLines(text, line) ==
  IF text = <<>> THEN IF line = <<>> THEN <<>> ELSE <<line>>
  ELSE IF Head(text) = "\n" THEN <<line>> \o SplitLines(Tail(text), <<>>)
  ELSE SplitLines(Tail(text), Append(line, Head(text)))

RECURSIVE RenderLines(_, _)
RECURSIVE RenderChildren(_, _, _)

RenderChildren(children, i, level) ==
  IF i > Len(children) THEN <<>>
  ELSE RenderLines(children[i], level) \o RenderChildren(children, i + 1, level)

\* The reference renderer, as lines.  Object and Array: a header line, then
\* each child's lines one level deeper.  Pair: the header Pair:, the line
\* Key: <key text>, and the line Value: <rendered value>, the value's own
\* first line following the label and its further lines below it.  Leaf: the
\* single line <Variant>: <value>.
RenderLines(node, level) ==
  IF node.node_type \in {"Object", "Array"}
  THEN <<Indent(level) \o NodeTypeText(node.node_type) \o <<":">> >>
         \o RenderChildren(node.children, 1, level + 1)
  ELSE IF node.node_type = "Pair"
  THEN LET value_lines == RenderLines(node.children[2], level + 1) IN
       <<Indent(level) \o <<"P", "a", "i", "r", ":">>,
         Indent(level + 1) \o <<"K", "e", "y", ":", " ">>
           \o ValueText(node.children[1].value),
         Indent(level + 1) \o <<"V", "a", "l", "u", "e", ":", " ">>
           \o SubSeq(value_lines[1], 2 * (level + 1) + 1, Len(value_lines[1]))>>
         \o Tail(value_lines)
  ELSE <<Indent(level) \o NodeTypeText(node.node_type) \o <<":", " ">>
           \o ValueText(node.value)>>

\* C13: ParseNode.__repr__ gives the reference rendering of every tree, line
\* for line.
C13_ReprIsReference ==
  TreeReturned => SplitLines(rendered, <<>>) = RenderLines(parse_outcome.node, 0)

(* C14 *)

\* the indexes of the tokens that start an array element, after the first,
\* whose variant tag differs from that of the array's first element
MismatchStarts(toks) ==
  {j \in 2..Len(toks) :
     /\ toks[j - 1].type = "COMMA"
     /\ OpenerBefore(toks, j - 1, 0) > 0
     /\ toks[OpenerBefore(toks, j - 1, 0)].type = "LBRACKET"
     /\ VariantTag(toks[j].type) /= "none"
     /\ VariantTag(toks[j].type)
          /= VariantTag(toks[OpenerBefore(toks, j - 1, 0) + 1].type)}

\* C14: of several violations parse reports the one whose offending token
\* comes first, an element of the wrong variant offending at its first
\* token: when the parser has gone past the first token of such an element,
\* what it reports is code 6 for that element, not a violation further on.
C14_FirstViolationReported ==
  ParseEnded =>
    \A j \in MismatchStarts(tokens) :
      j < StopIndex =>
        /\ SemanticCode(6)
        /\ ValueStart(tokens, StopIndex - 1) = j

====
